---------------------------- MODULE Spec2Model ----------------------------
(***************************************************************************)
(* Model of the batch audio-enhancement pipeline of xtts/clean_audio.py:   *)
(* AudioEnhancer.process_directory, AudioEnhancer.denoise_and_enhance,     *)
(* AudioEnhancer.verify_output and main.                                   *)
(*                                                                         *)
(* The file system is a map from file paths to contents plus a set of      *)
(* directories.  A file path is a record [dir, stem, ext]: the directory   *)
(* as a sequence of components and the base name split at its last dot,    *)
(* so that the glob '*.<audio_format>' and Path.name are computed.         *)
(* External calls (torchaudio.load, denoise, enhance, sf.write) either     *)
(* return or raise an Exception; which one is a free choice of the         *)
(* environment.  Output paths are absent or directories at the start, so   *)
(* Path.mkdir(parents=True, exist_ok=True) succeeds.                       *)
(***************************************************************************)
EXTENDS Naturals, Sequences, FiniteSets

VARIABLES
    cfg,               \* the keyword arguments of process_directory
    fs,                \* file path -> content
    dirs,              \* the directories that exist
    pc,                \* position in main / process_directory / denoise_and_enhance
    audio_files,       \* list(input_path.rglob(...))
    idx,               \* position of the for loop in audio_files
    audio_file,        \* the loop variable
    locals,            \* locals of denoise_and_enhance: solver, nfe, lambd, dwav, sr,
                       \* wav_denoised, wav_enhanced, new_sr
    successful_count,
    exc,               \* the exception in flight, None when there is none
    ret,               \* value returned by process_directory
    verified,          \* value returned by verify_output
    trace,             \* history of the external calls and prints, in order
    fs0,               \* file system when process_directory was called
    dirs0

vars == <<cfg, fs, dirs, pc, audio_files, idx, audio_file, locals,
          successful_count, exc, ret, verified, trace, fs0, dirs0>>

-----------------------------------------------------------------------------
(* Bounds of the explored inputs *)

\* largest number of files of the tree that carry the wav extension
MaxFiles == 2

None == [none |-> TRUE]

-----------------------------------------------------------------------------
(* Paths *)

IsPrefix(d, e) == Len(d) <= Len(e) /\ SubSeq(e, 1, Len(d)) = d

\* a directory and all its ancestors: what mkdir(parents=True) makes exist
WithParents(d) == {SubSeq(d, 1, k) : k \in 1..Len(d)}

File(d, stem, ext) == [dir |-> d, stem |-> stem, ext |-> ext]

\* Path.name
Name(p) == <<p.stem, p.ext>>

\* output_path / audio_file.name
Join(d, name) == [dir |-> d, stem |-> name[1], ext |-> name[2]]

\* faulty variant of RGlob: glob instead of rglob, sub-directories are not searched
RGlobTopLevel(files, root, fmt) == {p \in files : p.dir = root /\ p.ext = fmt}

\* faulty variant of RGlob: the pattern '*' instead of '*.<fmt>'
RGlobAnyExtension(files, root, fmt) == {p \in files : IsPrefix(root, p.dir)}

\* list(root.rglob('*.<fmt>')) as a set: every file at any depth under root
\* whose name ends in '.<fmt>'; nothing when root does not exist
RGlob(files, root, fmt) == {p \in files : IsPrefix(root, p.dir) /\ p.ext = fmt}

\* the orders in which rglob may yield a set of paths
Orders(S) ==
    {s \in [1..Cardinality(S) -> S] : \A a, b \in 1..Cardinality(S) : a # b => s[a] # s[b]}

-----------------------------------------------------------------------------
(* Explored inputs: trees, output directories and keyword arguments *)

\* main's CONFIG: './dataset/wavs' and './dataset/wavs_enhanced'
Wavs == <<"dataset", "wavs">>
WavsEnhanced == <<"dataset", "wavs_enhanced">>

\* files with the wav extension that a tree may hold, at depths 0, 1 and 2,
\* two of them with the same base name
WavCandidates ==
    {File(Wavs, "x", "wav"),
     File(Wavs \o <<"a">>, "x", "wav"),
     File(Wavs \o <<"a">>, "z", "wav"),
     File(Wavs \o <<"a", "b">>, "y", "wav")}

OtherFile == File(Wavs, "n", "flac")

\* the input trees: no input directory at all, or one file of another
\* extension and at most MaxFiles wav files
Trees ==
    {{}} \cup {S \cup {OtherFile} : S \in {T \in SUBSET WavCandidates : Cardinality(T) <= MaxFiles}}

\* what lies under ./dataset/wavs_enhanced before the run
StaleFiles ==
    {File(WavsEnhanced, "x", "wav"),
     File(WavsEnhanced, "old", "wav"),
     File(WavsEnhanced \o <<"sub">>, "z", "wav")}

\* output_dir and the files already there: a fresh directory, a directory
\* with files of an earlier run, the input directory itself, a directory
\* inside the input tree
OutputCases ==
    {[output_dir |-> WavsEnhanced, stale |-> {}],
     [output_dir |-> WavsEnhanced, stale |-> StaleFiles],
     [output_dir |-> Wavs, stale |-> {}],
     [output_dir |-> Wavs \o <<"a">>, stale |-> {}]}

AudioFormats == {"wav", "flac"}
Solvers == {"Midpoint", "EULER"}
\* nfe as the caller may pass it: an int, a float (in tenths), a numeric
\* string, a string int() rejects
Nfes == {[t |-> "int", v |-> 64], [t |-> "float", v |-> 327],
         [t |-> "str", v |-> 16], [t |-> "badstr", v |-> 0]}
\* tau in tenths
Taus == {7, 5}

\* defaults of process_directory's signature
DefaultSolver == "Midpoint"
DefaultNfe == [t |-> "int", v |-> 64]
DefaultTau == 7
DefaultDenoising == TRUE
DefaultUseEnhanced == TRUE

Config(oc, fmt, solver, nfe, tau, denoising, use_enhanced) ==
    [input_dir |-> Wavs, output_dir |-> oc.output_dir, audio_format |-> fmt,
     solver |-> solver, nfe |-> nfe, tau |-> tau,
     denoising |-> denoising, use_enhanced |-> use_enhanced]

\* directories a set of files implies
DirsOf(files) == UNION {WithParents(p.dir) : p \in files}

InitialContent(p) == [orig |-> p]

LocalsInit ==
    [solver |-> None, nfe |-> None, lambd |-> None, dwav |-> None, sr |-> None,
     wav_denoised |-> None, wav_enhanced |-> None, new_sr |-> None]

InitWith(files, c) ==
    /\ cfg = c
    /\ fs = [p \in files |-> InitialContent(p)]
    /\ dirs = DirsOf(files)
    /\ fs0 = fs
    /\ dirs0 = dirs
    /\ pc = "mkdir"
    /\ audio_files = <<>>
    /\ idx = 0
    /\ audio_file = None
    /\ locals = LocalsInit
    /\ successful_count = 0
    /\ exc = None
    /\ ret = None
    /\ verified = None
    /\ trace = <<>>

\* every tree, output case and format, with the defaults of the other
\* keyword arguments
InitTrees ==
    \E tree \in Trees, oc \in OutputCases, fmt \in AudioFormats :
        InitWith(tree \cup oc.stale,
                 Config(oc, fmt, DefaultSolver, DefaultNfe, DefaultTau, DefaultDenoising,
                        DefaultUseEnhanced))

\* every value of the keyword arguments, over a tree of two wav files
ParamTree == {File(Wavs, "x", "wav"), File(Wavs \o <<"a", "b">>, "y", "wav"), OtherFile}

InitParams ==
    \E solver \in Solvers, nfe \in Nfes, tau \in Taus,
       denoising \in BOOLEAN, use_enhanced \in BOOLEAN :
        InitWith(ParamTree,
                 Config([output_dir |-> WavsEnhanced], "wav", solver, nfe, tau,
                        denoising, use_enhanced))

Init == InitTrees \/ InitParams

-----------------------------------------------------------------------------
(* Conversions *)

\* str.lower() on the strings the model passes around
Lower(s) ==
    CASE s = "Midpoint" -> "midpoint"
      [] s = "EULER" -> "euler"
      [] OTHER -> s

\* int(nfe): an int is kept, a float is truncated, a numeric string is
\* parsed, any other string raises ValueError
IntRaises(n) == n.t = "badstr"

IntOf(n) ==
    CASE n.t = "int" -> n.v
      [] n.t = "float" -> n.v \div 10
      [] n.t = "str" -> n.v

\* faulty variant of Lambd: the two weights exchanged
LambdSwapped(denoising) == IF denoising THEN 1 ELSE 9

\* lambd = 0.9 if denoising else 0.1, in tenths
Lambd(denoising) == IF denoising THEN 9 ELSE 1

\* dwav.mean(dim=0): the channels averaged into one
Mean(w) == [w EXCEPT !.mono = TRUE]

\* faulty variant of Select: the flag ignored, the denoised output always taken
SelectDenoised(use_enhanced, denoised_output, enhanced_output) == denoised_output

\* sample_rate, audio_array = enhanced_output if use_enhanced else denoised_output
Select(use_enhanced, denoised_output, enhanced_output) ==
    IF use_enhanced THEN enhanced_output ELSE denoised_output

\* faulty variant of OutputFilename: the sub-directories of the input kept
OutputFilenameMirrored(output_path, f) ==
    [dir |-> output_path \o SubSeq(f.dir, Len(cfg.input_dir) + 1, Len(f.dir)),
     stem |-> f.stem, ext |-> f.ext]

\* faulty variant of OutputFilename: the input file overwritten in place
OutputFilenameInPlace(output_path, f) == f

\* output_filename = output_path / audio_file.name
OutputFilename(output_path, f) == Join(output_path, Name(f))

\* the file system with path p holding content c
WriteFile(files, p, c) == [q \in DOMAIN files \cup {p} |-> IF q = p THEN c ELSE files[q]]

Log(e) == trace' = Append(trace, e)

-----------------------------------------------------------------------------
(* process_directory *)

\* output_path.mkdir(parents=True, exist_ok=True)
Mkdir ==
    /\ pc = "mkdir"
    /\ dirs' = dirs \cup WithParents(cfg.output_dir)
    /\ pc' = "rglob"
    /\ UNCHANGED <<cfg, fs, audio_files, idx, audio_file, locals, successful_count,
                   exc, ret, verified, trace, fs0, dirs0>>

\* audio_files = list(input_path.rglob(...)); return 0 when it is empty,
\* successful_count = 0 otherwise
Rglob ==
    /\ pc = "rglob"
    /\ \E order \in Orders(RGlob(DOMAIN fs, cfg.input_dir, cfg.audio_format)) :
          audio_files' = order
    /\ IF audio_files' = <<>>
         THEN /\ ret' = 0
              /\ pc' = "returned"
              /\ UNCHANGED successful_count
         ELSE /\ successful_count' = 0
              /\ pc' = "for"
              /\ UNCHANGED ret
    /\ UNCHANGED <<cfg, fs, dirs, idx, audio_file, locals, exc, verified, trace, fs0, dirs0>>

\* for audio_file in audio_files: the next file, or the end of the loop
For ==
    /\ pc = "for"
    /\ IF idx < Len(audio_files)
         THEN /\ idx' = idx + 1
              /\ audio_file' = audio_files[idx + 1]
              /\ pc' = "call"
         ELSE /\ pc' = "return"
              /\ UNCHANGED <<idx, audio_file>>
    /\ locals' = LocalsInit
    /\ UNCHANGED <<cfg, fs, dirs, audio_files, successful_count, exc, ret, verified,
                   trace, fs0, dirs0>>

\* an exception raised at the current position, carried to the handler
Raise(what) ==
    /\ exc' = what
    /\ pc' = "except"

\* the call of denoise_and_enhance: solver.lower(), int(nfe), lambd
Normalise ==
    /\ pc = "call"
    /\ Log([ev |-> "call", file |-> audio_file])
    /\ IF IntRaises(cfg.nfe)
         THEN /\ Raise("ValueError")
              /\ locals' = [locals EXCEPT !.solver = Lower(cfg.solver)]
         ELSE /\ locals' = [locals EXCEPT !.solver = Lower(cfg.solver),
                                          !.nfe = IntOf(cfg.nfe),
                                          !.lambd = Lambd(cfg.denoising)]
              /\ pc' = "load"
              /\ UNCHANGED exc
    /\ UNCHANGED <<cfg, fs, dirs, audio_files, idx, audio_file, successful_count, ret,
                   verified, fs0, dirs0>>

\* dwav, sr = torchaudio.load(audio_path); dwav = dwav.mean(dim=0)
Load ==
    /\ pc = "load"
    /\ \E ok \in BOOLEAN :
          /\ Log([ev |-> "load", file |-> audio_file, ok |-> ok])
          /\ IF ok
               THEN /\ locals' = [locals EXCEPT
                                    !.dwav = Mean([src |-> audio_file, data |-> fs[audio_file],
                                                   mono |-> FALSE]),
                                    !.sr = "file_rate"]
                    /\ pc' = "denoise"
                    /\ UNCHANGED exc
               ELSE /\ Raise("load failed")
                    /\ UNCHANGED locals
    /\ UNCHANGED <<cfg, fs, dirs, audio_files, idx, audio_file, successful_count, ret,
                   verified, fs0, dirs0>>

\* faulty variant of Denoise: the failure is swallowed inside
\* denoise_and_enhance, which goes on to enhance
DenoiseSwallowing ==
    /\ pc = "denoise"
    /\ \E ok \in BOOLEAN :
          /\ Log([ev |-> "denoise", file |-> audio_file, arg |-> locals.dwav, ok |-> ok])
          /\ locals' = IF ok
                         THEN [locals EXCEPT
                                 !.wav_denoised = [op |-> "denoise", of |-> locals.dwav],
                                 !.new_sr = "denoiser_rate"]
                         ELSE locals
          /\ pc' = "enhance"
          /\ UNCHANGED exc
    /\ UNCHANGED <<cfg, fs, dirs, audio_files, idx, audio_file, successful_count, ret,
                   verified, fs0, dirs0>>

\* wav_denoised, new_sr = denoise(dwav, sr, self.device)
Denoise ==
    /\ pc = "denoise"
    /\ \E ok \in BOOLEAN :
          /\ Log([ev |-> "denoise", file |-> audio_file, arg |-> locals.dwav, ok |-> ok])
          /\ IF ok
               THEN /\ locals' = [locals EXCEPT
                                    !.wav_denoised = [op |-> "denoise", of |-> locals.dwav],
                                    !.new_sr = "denoiser_rate"]
                    /\ pc' = "enhance"
                    /\ UNCHANGED exc
               ELSE /\ Raise("denoise failed")
                    /\ UNCHANGED locals
    /\ UNCHANGED <<cfg, fs, dirs, audio_files, idx, audio_file, successful_count, ret,
                   verified, fs0, dirs0>>

\* faulty variant of EnhanceArgs: enhance fed the denoised buffer
EnhanceArgsChained ==
    [wav |-> locals.wav_denoised, nfe |-> locals.nfe, solver |-> locals.solver,
     lambd |-> locals.lambd, tau |-> cfg.tau]

\* wav_enhanced, new_sr = enhance(dwav, sr, self.device, nfe=nfe, solver=solver,
\* lambd=lambd, tau=tau); then both results are returned
EnhanceArgs ==
    [wav |-> locals.dwav, nfe |-> locals.nfe, solver |-> locals.solver,
     lambd |-> locals.lambd, tau |-> cfg.tau]

Enhance ==
    /\ pc = "enhance"
    /\ \E ok \in BOOLEAN :
          /\ Log([ev |-> "enhance", file |-> audio_file, arg |-> EnhanceArgs, ok |-> ok])
          /\ IF ok
               THEN /\ locals' = [locals EXCEPT
                                    !.wav_enhanced = [op |-> "enhance", of |-> EnhanceArgs],
                                    !.new_sr = "enhancer_rate"]
                    /\ pc' = "write"
                    /\ UNCHANGED exc
               ELSE /\ Raise("enhance failed")
                    /\ UNCHANGED locals
    /\ UNCHANGED <<cfg, fs, dirs, audio_files, idx, audio_file, successful_count, ret,
                   verified, fs0, dirs0>>

\* the selection of the output and sf.write(str(output_filename), audio_array,
\* sample_rate, format=...): it returns, raises before the file is opened, or
\* raises after it was opened and leaves a truncated file
SfWrite ==
    /\ pc = "write"
    /\ LET out == Select(cfg.use_enhanced,
                         <<locals.new_sr, locals.wav_denoised>>,
                         <<locals.new_sr, locals.wav_enhanced>>)
           output_filename == OutputFilename(cfg.output_dir, audio_file)
           content == [audio |-> out[2], rate |-> out[1], format |-> Lower(cfg.audio_format)]
       IN \E outcome \in {"ok", "raised", "truncated"} :
             /\ Log([ev |-> "write", file |-> audio_file, path |-> output_filename,
                     data |-> content, outcome |-> outcome])
             /\ fs' = CASE outcome = "ok" -> WriteFile(fs, output_filename, content)
                        [] outcome = "truncated" ->
                               WriteFile(fs, output_filename, [truncated |-> content])
                        [] outcome = "raised" -> fs
             /\ IF outcome = "ok"
                  THEN pc' = "count" /\ UNCHANGED exc
                  ELSE Raise("write failed")
    /\ UNCHANGED <<cfg, dirs, audio_files, idx, audio_file, locals, successful_count, ret,
                   verified, fs0, dirs0>>

\* successful_count += 1
Count ==
    /\ pc = "count"
    /\ successful_count' = successful_count + 1
    /\ Log([ev |-> "count", file |-> audio_file])
    /\ pc' = "for"
    /\ UNCHANGED <<cfg, fs, dirs, audio_files, idx, audio_file, locals, exc, ret,
                   verified, fs0, dirs0>>

\* faulty variant of Except: break instead of continue
ExceptAborting ==
    /\ pc = "except"
    /\ Log([ev |-> "error", file |-> audio_file, name |-> Name(audio_file), msg |-> exc])
    /\ exc' = None
    /\ pc' = "return"
    /\ UNCHANGED <<cfg, fs, dirs, audio_files, idx, audio_file, locals, successful_count,
                   ret, verified, fs0, dirs0>>

\* except Exception as e: print(f"Error processing {audio_file.name}: ..."); continue
Except ==
    /\ pc = "except"
    /\ Log([ev |-> "error", file |-> audio_file, name |-> Name(audio_file), msg |-> exc])
    /\ exc' = None
    /\ pc' = "for"
    /\ UNCHANGED <<cfg, fs, dirs, audio_files, idx, audio_file, locals, successful_count,
                   ret, verified, fs0, dirs0>>

\* return successful_count
Return ==
    /\ pc = "return"
    /\ ret' = successful_count
    /\ pc' = "returned"
    /\ UNCHANGED <<cfg, fs, dirs, audio_files, idx, audio_file, locals, successful_count,
                   exc, verified, trace, fs0, dirs0>>

-----------------------------------------------------------------------------
(* verify_output and main *)

\* faulty variant of VerifyCount: only the files directly in the directory counted
VerifyCountTopLevel(files, directories, output_dir, fmt) ==
    IF output_dir \notin directories
      THEN 0
      ELSE Cardinality({p \in files : p.dir = output_dir /\ p.ext = fmt})

\* verify_output(output_dir, audio_format): 0 when the directory does not
\* exist, the number of files rglob finds otherwise
VerifyCount(files, directories, output_dir, fmt) ==
    IF output_dir \notin directories
      THEN 0
      ELSE Cardinality(RGlob(files, output_dir, fmt))

\* main: if successful_count > 0: enhancer.verify_output(...) else a message
MainCheck ==
    /\ pc = "returned"
    /\ pc' = IF ret > 0 THEN "verify" ELSE "exit"
    /\ UNCHANGED <<cfg, fs, dirs, audio_files, idx, audio_file, locals, successful_count,
                   exc, ret, verified, trace, fs0, dirs0>>

VerifyOutput ==
    /\ pc = "verify"
    /\ verified' = VerifyCount(DOMAIN fs, dirs, cfg.output_dir, cfg.audio_format)
    /\ pc' = "exit"
    /\ UNCHANGED <<cfg, fs, dirs, audio_files, idx, audio_file, locals, successful_count,
                   exc, ret, trace, fs0, dirs0>>

Next ==
    \/ Mkdir
    \/ Rglob
    \/ For
    \/ Normalise
    \/ Load
    \/ Denoise
    \/ Enhance
    \/ SfWrite
    \/ Count
    \/ Except
    \/ Return
    \/ MainCheck
    \/ VerifyOutput

Spec == Init /\ [][Next]_vars

-----------------------------------------------------------------------------
(* Vocabulary of the properties *)

\* process_directory has returned
Finished == pc \in {"returned", "verify", "exit"}

\* the files of the input tree that match the extension filter, read off the
\* file system process_directory was called on
Discoverable ==
    {p \in DOMAIN fs0 :
        /\ Len(cfg.input_dir) <= Len(p.dir)
        /\ \A k \in 1..Len(cfg.input_dir) : p.dir[k] = cfg.input_dir[k]
        /\ p.ext = cfg.audio_format}

N == Cardinality(Discoverable)

EventsOf(f) == {k \in 1..Len(trace) : trace[k].file = f}
Has(f, e) == \E k \in EventsOf(f) : trace[k].ev = e

\* the files whose processing raised, and their number K
FailedFiles == {f \in Discoverable : Has(f, "error")}
K == Cardinality(FailedFiles)
NoFailures == \A k \in 1..Len(trace) : trace[k].ev # "error"

\* the path the spec gives the output of input file f
FlatPath(f) == [dir |-> cfg.output_dir, stem |-> f.stem, ext |-> f.ext]

WrittenOk(f) ==
    \E k \in EventsOf(f) :
        trace[k].ev = "write" /\ trace[k].outcome = "ok" /\ trace[k].path = FlatPath(f)

\* files in directory d itself, and files under d at any depth
DirectlyIn(files, d) == {p \in files : p.dir = d}
Under(files, d) == {p \in files : Len(d) <= Len(p.dir) /\ SubSeq(p.dir, 1, Len(d)) = d}

BaseNames(files) == {<<p.stem, p.ext>> : p \in files}
DistinctBaseNames == Cardinality(BaseNames(Discoverable)) = N

\* the output directory is neither the input root nor a directory below it
OutsideInputTree ==
    ~(/\ Len(cfg.input_dir) <= Len(cfg.output_dir)
      /\ SubSeq(cfg.output_dir, 1, Len(cfg.input_dir)) = cfg.input_dir)

\* the output directory is outside the input tree and holds nothing before the run
FreshOutput == OutsideInputTree /\ Under(DOMAIN fs0, cfg.output_dir) = {}

\* a step of the per-file sequence: a smaller rank comes first
Rank(e) ==
    CASE e = "call" -> 1
      [] e = "load" -> 2
      [] e = "denoise" -> 3
      [] e = "enhance" -> 4
      [] e = "write" -> 5
      [] e = "count" -> 6
      [] e = "error" -> 7

\* position of file f in audio_files
Position(f) == CHOOSE k \in 1..Len(audio_files) : audio_files[k] = f

\* the event reports a call that raised
Raised(e) ==
    \/ e.ev \in {"load", "denoise", "enhance"} /\ ~e.ok
    \/ e.ev = "write" /\ e.outcome # "ok"

-----------------------------------------------------------------------------
(* C1: a failure on one file never aborts the batch: when the run has
   returned, every one of the N discovered files was attempted, the value
   returned is N - K where K files failed, and every file that did not fail
   had its output written at <output_dir>/<base name>. *)
C1_FailureNeverAborts ==
    Finished =>
        LET failed == FailedFiles
        IN /\ \A f \in Discoverable : Has(f, "call")
           /\ ret + Cardinality(failed) = N
           /\ \A f \in Discoverable \ failed : WrittenOk(f)

\* one corrupted file among two: the run returned 1 of 2, and the failing
\* file was the first one
C1_Witness ==
    /\ pc = "exit"
    /\ N = 2
    /\ K = 1
    /\ ret = 1
    /\ \E f \in FailedFiles : Position(f) = 1

(* C2 as stated, taken in the case most favourable to it (an output
   directory outside the input tree that holds nothing before the run): with
   N matching files and no failure the run reports N and the output
   directory then contains exactly N files, with the base names of the
   inputs, also when inputs in different sub-directories share a base name. *)
C2_ExactlyNFiles ==
    (Finished /\ NoFailures /\ FreshOutput) =>
        /\ ret = N
        /\ Cardinality(Under(DOMAIN fs, cfg.output_dir)) = N
        /\ BaseNames(Under(DOMAIN fs, cfg.output_dir)) = BaseNames(Discoverable)

(* C2 amended: with N matching files and no failure the run reports N, and
   the files directly inside the output directory are then the ones it held
   before plus one per distinct base name of the inputs; they are exactly N,
   with the inputs' base names, when those base names are pairwise distinct
   and the output directory held no file before the run. *)
C2_OnePerBaseName ==
    (Finished /\ NoFailures) =>
        /\ ret = N
        /\ DirectlyIn(DOMAIN fs, cfg.output_dir) =
              DirectlyIn(DOMAIN fs0, cfg.output_dir) \cup {FlatPath(f) : f \in Discoverable}
        /\ (DistinctBaseNames /\ Under(DOMAIN fs0, cfg.output_dir) = {}) =>
              /\ Cardinality(Under(DOMAIN fs, cfg.output_dir)) = N
              /\ BaseNames(Under(DOMAIN fs, cfg.output_dir)) = BaseNames(Discoverable)

\* a batch of two files without failure that have the same base name
C2_Witness ==
    /\ pc = "exit"
    /\ NoFailures
    /\ N = 2
    /\ ret = 2
    /\ ~DistinctBaseNames

(* C3: when no file matches the filter (also when the input directory does
   not exist) process_directory returns 0 without raising, the single-file
   processor is never invoked and no file is created or changed: only the
   output directory (with its missing parents) may be new. *)
C3_NothingToDo ==
    (Discoverable = {}) =>
        /\ trace = <<>>
        /\ pc \notin {"for", "call", "load", "denoise", "enhance", "write", "count",
                      "except", "return"}
        /\ fs = fs0
        /\ dirs = dirs0 \/ dirs = dirs0 \cup WithParents(cfg.output_dir)
        /\ Finished => ret = 0

\* the input directory does not exist; the run returned 0 and left a newly
\* created output directory
C3_Witness ==
    /\ pc = "exit"
    /\ cfg.input_dir \notin dirs0
    /\ Discoverable = {}
    /\ ret = 0
    /\ cfg.output_dir \notin dirs0
    /\ cfg.output_dir \in dirs

\* what verify_output reported in main, or would report in the current state
Reported ==
    IF pc = "exit" /\ ret > 0
      THEN verified
      ELSE VerifyCount(DOMAIN fs, dirs, cfg.output_dir, cfg.audio_format)

(* C4 as stated, taken in the case most favourable to it (an output
   directory outside the input tree that holds nothing before the run): the
   verifier, run by main on the output directory right after a batch of N
   discovered files without failure, reports exactly N, the value
   process_directory returned. *)
C4_VerifierReportsN ==
    (pc = "exit" /\ ret > 0 /\ NoFailures /\ FreshOutput) => (verified = N /\ ret = N)

(* C4 amended: after a batch of N discovered files without failure,
   process_directory returned N and the verifier reports the number of
   distinct paths among <output_dir>/<base name> of the N files and the
   matching files that lay under the output directory before the run; that
   is exactly N when the base names are pairwise distinct and no matching
   file lay under the output directory before. *)
C4_VerifierCountsPaths ==
    (pc \in {"returned", "exit"} /\ NoFailures) =>
        LET before == {p \in Under(DOMAIN fs0, cfg.output_dir) : p.ext = cfg.audio_format}
        IN /\ ret = N
           /\ Reported = Cardinality(before \cup {FlatPath(f) : f \in Discoverable})
           /\ (DistinctBaseNames /\ before = {}) => Reported = N

\* main ran the verifier after a batch without failure whose files have
\* distinct base names, into a fresh output directory: it reports N
C4_Witness ==
    /\ pc = "exit"
    /\ NoFailures
    /\ N = 2
    /\ DistinctBaseNames
    /\ FreshOutput
    /\ ret = 2
    /\ verified = 2

(* C5: the input tree is flattened: every write goes to
   <output_dir>/<base name of the input file>, whatever the depth of the
   input file, and never to a path that keeps the input sub-directories. *)
C5_Flattened ==
    /\ \A k \in 1..Len(trace) :
          trace[k].ev = "write" =>
              /\ trace[k].path.dir = cfg.output_dir
              /\ trace[k].path.stem = trace[k].file.stem
              /\ trace[k].path.ext = trace[k].file.ext
    /\ \A p \in DOMAIN fs : (p \notin DOMAIN fs0 \/ fs[p] # fs0[p]) => p.dir = cfg.output_dir

\* a file two directories below the input root was written directly into
\* the output directory
C5_Witness ==
    \E k \in 1..Len(trace) :
        /\ trace[k].ev = "write"
        /\ trace[k].outcome = "ok"
        /\ Len(trace[k].file.dir) = Len(cfg.input_dir) + 2
        /\ trace[k].path \in DOMAIN fs
        /\ trace[k].path.dir = WavsEnhanced

(* C6: whatever the successes and failures, the run only creates the output
   directory (with its missing parents) and writes paths directly inside it:
   no file elsewhere is created, deleted or changed, and the input files are
   unchanged when the output directory lies outside the input tree. *)
C6_Frame ==
    /\ \A p \in DOMAIN fs0 : p \in DOMAIN fs /\ (p.dir # cfg.output_dir => fs[p] = fs0[p])
    /\ \A p \in DOMAIN fs \ DOMAIN fs0 : p.dir = cfg.output_dir
    /\ dirs0 \subseteq dirs
    /\ dirs \subseteq dirs0 \cup WithParents(cfg.output_dir)
    /\ OutsideInputTree => \A f \in Discoverable : fs[f] = fs0[f]

\* a finished run with a written file and a failed file, whose output
\* directory already held files that are still there
C6_Witness ==
    /\ pc = "exit"
    /\ OutsideInputTree
    /\ \E f \in Discoverable : WrittenOk(f)
    /\ \E k \in 1..Len(trace) : trace[k].ev = "write" /\ trace[k].outcome = "truncated"
    /\ File(WavsEnhanced, "old", "wav") \in DOMAIN fs0
    /\ fs # fs0

(* C7: the blend weight passed to enhance is 0.9 when denoising is true and
   0.1 when it is false, for every file and whatever solver, nfe, tau and
   use_enhanced are. *)
C7_BlendWeight ==
    \A k \in 1..Len(trace) :
        trace[k].ev = "enhance" =>
            /\ cfg.denoising => trace[k].arg.lambd = 9
            /\ ~cfg.denoising => trace[k].arg.lambd = 1

\* enhance was called for two files with denoising off, a non-default
\* solver, a float nfe and a non-default tau
C7_Witness ==
    /\ ~cfg.denoising
    /\ cfg.solver = "EULER"
    /\ cfg.nfe.t = "float"
    /\ cfg.tau = 5
    /\ Cardinality({k \in 1..Len(trace) : trace[k].ev = "enhance" /\ trace[k].arg.lambd = 1}) = 2

(* C8: for every file that is written, the buffer written is the enhanced
   result of that file when use_enhanced is true and its denoised result
   when it is false; a file is written at most once, and a file that
   succeeded exactly once. *)
C8_OutputSelection ==
    /\ \A k \in 1..Len(trace) :
          trace[k].ev = "write" =>
              /\ cfg.use_enhanced =>
                    /\ trace[k].data.audio.op = "enhance"
                    /\ trace[k].data.audio.of.wav.src = trace[k].file
              /\ ~cfg.use_enhanced =>
                    /\ trace[k].data.audio.op = "denoise"
                    /\ trace[k].data.audio.of.src = trace[k].file
              /\ trace[k].outcome = "ok" =>
                    /\ trace[k].path \in DOMAIN fs
                    /\ \E j \in k..Len(trace) :
                          /\ trace[j].ev = "write"
                          /\ trace[j].path = trace[k].path
                          /\ \/ fs[trace[k].path] = trace[j].data
                             \/ fs[trace[k].path] = [truncated |-> trace[j].data]
              /\ \A j \in 1..Len(trace) :
                    (trace[j].ev = "write" /\ trace[j].file = trace[k].file) => j = k
    /\ \A k \in 1..Len(trace) : trace[k].ev = "count" => WrittenOk(trace[k].file)

\* with use_enhanced off, two files were written, both with their denoised result
C8_Witness ==
    /\ ~cfg.use_enhanced
    /\ successful_count = 2
    /\ \E p \in DOMAIN fs :
          /\ p.dir = WavsEnhanced
          /\ p \notin DOMAIN fs0
          /\ fs[p].audio.op = "denoise"

(* C9: processing is strictly sequential: the steps of a file occur in the
   order load, denoise, enhance, write; a file is finished (counted, or its
   error reported) before the first step of the next file; every discovered
   file is attempted exactly once, in the order of the enumeration; denoise
   and enhance are each invoked at most once per file, both on the mono
   buffer loaded from that file. *)
C9_Sequential ==
    /\ LET found == Discoverable
       IN \A k \in 1..Len(trace) : trace[k].file \in found
    /\ \A k \in 1..(Len(trace) - 1) :
          IF trace[k + 1].file = trace[k].file
            THEN /\ Rank(trace[k].ev) < Rank(trace[k + 1].ev)
                 /\ trace[k + 1].ev # "error" => Rank(trace[k + 1].ev) = Rank(trace[k].ev) + 1
            ELSE /\ trace[k].ev \in {"count", "error"}
                 /\ trace[k + 1].ev = "call"
                 /\ Position(trace[k + 1].file) = Position(trace[k].file) + 1
    /\ Len(trace) > 0 => trace[1].ev = "call" /\ Position(trace[1].file) = 1
    /\ \A f \in Discoverable :
          LET calls == {k \in 1..Len(trace) : trace[k].file = f /\ trace[k].ev = "call"}
              denoises == {k \in 1..Len(trace) : trace[k].file = f /\ trace[k].ev = "denoise"}
              enhances == {k \in 1..Len(trace) : trace[k].file = f /\ trace[k].ev = "enhance"}
          IN /\ Cardinality(calls) <= 1
             /\ Cardinality(denoises) <= 1
             /\ Cardinality(enhances) <= 1
             /\ Finished => Cardinality(calls) = 1
    /\ \A k \in 1..Len(trace) :
          /\ trace[k].ev = "denoise" => (trace[k].arg.src = trace[k].file /\ trace[k].arg.mono)
          /\ trace[k].ev = "enhance" =>
                (trace[k - 1].ev = "denoise" /\ trace[k - 1].arg = trace[k].arg.wav)

\* two files were processed to the end: the first one failed in enhance,
\* then the second one was loaded, denoised, enhanced and written
C9_Witness ==
    /\ pc = "exit"
    /\ Len(audio_files) = 2
    /\ \E k \in EventsOf(audio_files[1]) : trace[k].ev = "enhance" /\ ~trace[k].ok
    /\ WrittenOk(audio_files[2])

(* C10: a failure of load, denoise or enhance is caught only by the batch
   runner: the next thing that happens is the runner's error report for that
   file, so no later step runs, nothing is written for it and it is not
   counted; the counter is incremented only right after a write has
   returned, and 0 <= succeeded <= files attempted so far <= N throughout. *)
C10_FailureAbsorbedByRunner ==
    /\ \A k \in 1..Len(trace) :
          /\ Raised(trace[k]) =>
                /\ k < Len(trace) =>
                      (trace[k + 1].ev = "error" /\ trace[k + 1].file = trace[k].file)
                /\ k = Len(trace) => (pc = "except" /\ audio_file = trace[k].file)
                /\ \A j \in EventsOf(trace[k].file) : j > k => trace[j].ev = "error"
                /\ trace[k].ev # "write" =>
                      \A j \in EventsOf(trace[k].file) : trace[j].ev # "write"
                /\ ~Has(trace[k].file, "count")
          /\ trace[k].ev = "count" =>
                /\ k > 1
                /\ trace[k - 1].ev = "write"
                /\ trace[k - 1].outcome = "ok"
                /\ trace[k - 1].file = trace[k].file
    /\ successful_count = Cardinality({k \in 1..Len(trace) : trace[k].ev = "count"})
    /\ pc = "except" => Raised(trace[Len(trace)]) \/ trace[Len(trace)].ev = "call"
    /\ 0 <= successful_count
    /\ successful_count <= idx
    /\ pc \in {"call", "load", "denoise", "enhance", "write", "count", "except"} =>
          successful_count < idx
    /\ idx <= N

\* after one file succeeded, denoise failed on the second: enhance and write
\* were skipped, the error was reported and the counter still reads 1
C10_Witness ==
    /\ pc = "for"
    /\ idx = 2
    /\ successful_count = 1
    /\ \E k \in EventsOf(audio_files[2]) : trace[k].ev = "denoise" /\ ~trace[k].ok
    /\ trace[Len(trace)].ev = "error"
    /\ ~Has(audio_files[2], "enhance")
    /\ ~Has(audio_files[2], "write")

=============================================================================
